---- MODULE Spec2Model ----
(***************************************************************************)
(* Model of the Excel -> MySQL upload of app_sicar_productos.py:           *)
(* App.upload_excel_to_db, App._read_excel_safe, App._clean_autocorrect    *)
(* with its coercers, df_to_mysql_params and the two SQL statements.       *)
(*                                                                         *)
(* Text is a sequence of one-character strings, so that strip, lower,      *)
(* upper, replace and the regular expressions are computed, not assumed.   *)
(* A number is a pair (m, e) standing for m / 10^e, kept normalised.       *)
(***************************************************************************)
EXTENDS Integers, Sequences, FiniteSets, TLC

\* ------------------------------------------------------------------------
\* Bounds of the model
\* ------------------------------------------------------------------------
\* largest number of data rows of a spreadsheet
MaxRows == 2

\* ------------------------------------------------------------------------
\* Characters and text
\* ------------------------------------------------------------------------
\* "i'" and "I'" stand for the accented letters of "sí" / "SÍ"
Lowers == <<"a","b","c","d","e","f","g","h","i","j","k","l","m",
            "n","o","p","q","r","s","t","u","v","w","x","y","z","i'">>
Uppers == <<"A","B","C","D","E","F","G","H","I","J","K","L","M",
            "N","O","P","Q","R","S","T","U","V","W","X","Y","Z","I'">>
Digits == <<"0","1","2","3","4","5","6","7","8","9">>

IndexIn(c, seq) ==
    IF \E i \in 1..Len(seq) : seq[i] = c
    THEN CHOOSE i \in 1..Len(seq) : seq[i] = c
    ELSE 0

IsDigit(c) == IndexIn(c, Digits) # 0
DigitVal(c) == IndexIn(c, Digits) - 1

\* str.lower / str.upper on one character
LowerChar(c) == IF IndexIn(c, Uppers) # 0 THEN Lowers[IndexIn(c, Uppers)] ELSE c
UpperChar(c) == IF IndexIn(c, Lowers) # 0 THEN Uppers[IndexIn(c, Lowers)] ELSE c

Lower(s) == [i \in 1..Len(s) |-> LowerChar(s[i])]
Upper(s) == [i \in 1..Len(s) |-> UpperChar(s[i])]

RECURSIVE LStrip(_)
LStrip(s) == IF s # <<>> /\ Head(s) = " " THEN LStrip(Tail(s)) ELSE s

RECURSIVE RStrip(_)
RStrip(s) == IF s # <<>> /\ s[Len(s)] = " " THEN RStrip(SubSeq(s, 1, Len(s) - 1)) ELSE s

\* str.strip()
Strip(s) == RStrip(LStrip(s))

\* str.replace(a, b) for single characters
ReplaceChar(s, a, b) == [i \in 1..Len(s) |-> IF s[i] = a THEN b ELSE s[i]]

\* str.replace(c, '')
RECURSIVE RemoveChar(_, _)
RemoveChar(s, c) ==
    IF s = <<>> THEN <<>>
    ELSE IF Head(s) = c THEN RemoveChar(Tail(s), c)
    ELSE <<Head(s)>> \o RemoveChar(Tail(s), c)

\* ------------------------------------------------------------------------
\* Numbers: m / 10^e with no trailing zero in the fraction
\* ------------------------------------------------------------------------
RECURSIVE NormM(_, _)
NormM(m, e) == IF e > 0 /\ m % 10 = 0 THEN NormM(m \div 10, e - 1) ELSE m

RECURSIVE NormE(_, _)
NormE(m, e) == IF e > 0 /\ m % 10 = 0 THEN NormE(m \div 10, e - 1) ELSE e

RECURSIVE Pow10(_)
Pow10(n) == IF n = 0 THEN 1 ELSE 10 * Pow10(n - 1)

RECURSIVE NatOfDigits(_)
NatOfDigits(s) ==
    IF s = <<>> THEN 0
    ELSE 10 * NatOfDigits(SubSeq(s, 1, Len(s) - 1)) + DigitVal(s[Len(s)])

RECURSIVE DigitsOfNat(_)
DigitsOfNat(n) ==
    IF n < 10 THEN <<Digits[n + 1]>>
    ELSE DigitsOfNat(n \div 10) \o <<Digits[(n % 10) + 1]>>

RECURSIVE PadLeft(_, _)
PadLeft(s, n) == IF Len(s) >= n THEN s ELSE PadLeft(<<"0">> \o s, n)

Abs(n) == IF n < 0 THEN 0 - n ELSE n

\* ------------------------------------------------------------------------
\* Cell values.  t is the Python type of the scalar:
\*   "nan"   NaN / None (a blank cell),  "int"  a Python int (m, e = 0),
\*   "float" a Python float m / 10^e,    "str"  a Python str s.
\* ------------------------------------------------------------------------
None == [t |-> "nan", m |-> 0, e |-> 0, s |-> <<>>]
IntV(n) == [t |-> "int", m |-> n, e |-> 0, s |-> <<>>]
FloatV(mm, ee) == [t |-> "float", m |-> NormM(mm, ee), e |-> NormE(mm, ee), s |-> <<>>]
StrV(str) == [t |-> "str", m |-> 0, e |-> 0, s |-> str]

\* pd.isna(x)
IsNa(x) == x.t = "nan"

\* str(x) of a Python scalar
PyStr(x) ==
    CASE x.t = "nan" -> <<"n","a","n">>
      [] x.t = "str" -> x.s
      [] x.t = "int" -> (IF x.m < 0 THEN <<"-">> ELSE <<>>) \o DigitsOfNat(Abs(x.m))
      [] x.t = "float" ->
            (IF x.m < 0 THEN <<"-">> ELSE <<>>)
            \o DigitsOfNat(Abs(x.m) \div Pow10(x.e))
            \o <<".">>
            \o (IF x.e = 0 THEN <<"0">>
                ELSE PadLeft(DigitsOfNat(Abs(x.m) % Pow10(x.e)), x.e))

\* ------------------------------------------------------------------------
\* Regular expressions of the coercers
\* ------------------------------------------------------------------------
\* last index of the run of digits that starts at index i
RECURSIVE DigitRunEnd(_, _)
DigitRunEnd(s, i) ==
    IF i + 1 <= Len(s) /\ IsDigit(s[i + 1]) THEN DigitRunEnd(s, i + 1) ELSE i

\* positions where -?\d+(?:\.\d+)? can start a match
NumTokenStarts(s) ==
    {i \in 1..Len(s) :
        \/ IsDigit(s[i])
        \/ s[i] = "-" /\ i + 1 <= Len(s) /\ IsDigit(s[i + 1])}

\* re.search(r"-?\d+(?:\.\d+)?", s): leftmost match, greedy; <<>> when none
NumToken(s) ==
    IF NumTokenStarts(s) = {} THEN <<>>
    ELSE LET p  == CHOOSE i \in NumTokenStarts(s) : \A j \in NumTokenStarts(s) : i <= j
             d0 == IF s[p] = "-" THEN p + 1 ELSE p
             e1 == DigitRunEnd(s, d0)
             e2 == IF e1 + 2 <= Len(s) /\ s[e1 + 1] = "." /\ IsDigit(s[e1 + 2])
                   THEN DigitRunEnd(s, e1 + 2) ELSE e1
         IN  SubSeq(s, p, e2)

\* re.fullmatch(r"\d+(?:[\.,]\d+)?", s)
IsPlainNumber(s) ==
    /\ s # <<>>
    /\ IsDigit(s[1])
    /\ LET e1 == DigitRunEnd(s, 1)
       IN  \/ e1 = Len(s)
           \/ /\ e1 + 2 <= Len(s)
              /\ s[e1 + 1] \in {".", ","}
              /\ IsDigit(s[e1 + 2])
              /\ DigitRunEnd(s, e1 + 2) = Len(s)

\* the digits of a text before / after its decimal point
IntPart(tok) ==
    IF IndexIn(".", tok) = 0 THEN tok ELSE SubSeq(tok, 1, IndexIn(".", tok) - 1)
FracPart(tok) ==
    IF IndexIn(".", tok) = 0 THEN <<>> ELSE SubSeq(tok, IndexIn(".", tok) + 1, Len(tok))

\* float(tok) for an unsigned text of digits with at most one point
UnsignedFloat(tok) ==
    FloatV(NatOfDigits(IntPart(tok) \o FracPart(tok)), Len(FracPart(tok)))

Negate(v) == [v EXCEPT !.m = 0 - v.m]

\* float(tok) for a token matched by -?\d+(?:\.\d+)?
FloatOfToken(tok) ==
    IF Head(tok) = "-" THEN Negate(UnsignedFloat(Tail(tok))) ELSE UnsignedFloat(tok)

AllDigits(s) == \A i \in 1..Len(s) : IsDigit(s[i])

\* the texts float() accepts: [+-] then digits[.digits], digits., .digits,
\* or inf / infinity / nan in any letter case (exponents and underscores are
\* not among the cells drawn here)
PyFloatBody(s) == IF s # <<>> /\ Head(s) \in {"+", "-"} THEN Tail(s) ELSE s
PyFloatIsSpecial(s) ==
    Lower(PyFloatBody(s)) \in {<<"n","a","n">>, <<"i","n","f">>,
                               <<"i","n","f","i","n","i","t","y">>}
PyFloatIsDecimal(s) ==
    LET b == PyFloatBody(s)
    IN  /\ AllDigits(IntPart(b)) /\ AllDigits(FracPart(b))
        /\ Len(IntPart(b)) + Len(FracPart(b)) > 0
PyFloatOk(s) == PyFloatIsSpecial(s) \/ PyFloatIsDecimal(s)
\* float(s) != 0, for a text float() accepts (nan and inf differ from 0)
PyFloatNonZero(s) ==
    \/ PyFloatIsSpecial(s)
    \/ UnsignedFloat(PyFloatBody(s)).m # 0

\* ------------------------------------------------------------------------
\* Column names and the registry
\* ------------------------------------------------------------------------
c_id == <<"i","d">>
c_clave == <<"c","l","a","v","e">>
c_descripcion == <<"d","e","s","c","r","i","p","c","i","o","n">>
c_existencia == <<"e","x","i","s","t","e","n","c","i","a">>
c_servicio == <<"s","e","r","v","i","c","i","o">>
c_precio_compra == <<"p","r","e","c","i","o","_","c","o","m","p","r","a">>
c_precio1 == <<"p","r","e","c","i","o","1">>
c_precio2 == <<"p","r","e","c","i","o","2">>
c_precio3 == <<"p","r","e","c","i","o","3">>
c_unidad_compra == <<"u","n","i","d","a","d","_","c","o","m","p","r","a">>
c_unidad_venta == <<"u","n","i","d","a","d","_","v","e","n","t","a">>
c_factor == <<"f","a","c","t","o","r">>
c_granel == <<"g","r","a","n","e","l">>
c_clave_alterna == <<"c","l","a","v","e","_","a","l","t","e","r","n","a">>

\* ALLOWED_MAP in declaration order: <<source column, target column, type>>
ALLOWED_MAP ==
    << <<c_descripcion, "descripcion", "str">>,
       <<c_existencia, "existencia", "num">>,
       <<c_servicio, "servicio", "bool">>,
       <<c_precio_compra, "preciocompra", "num">>,
       <<c_precio1, "precio1", "num">>,
       <<c_precio2, "precio2", "num">>,
       <<c_precio3, "precio3", "num">>,
       <<c_unidad_compra, "unidadCompra", "unit">>,
       <<c_unidad_venta, "unidadVenta", "unit">>,
       <<c_factor, "factor", "num">>,
       <<c_granel, "granel", "bool">>,
       <<c_clave_alterna, "clavealterna", "str">> >>

\* c in ALLOWED_MAP
InAllowedMap(c) == \E i \in 1..Len(ALLOWED_MAP) : ALLOWED_MAP[i][1] = c
AllowedEntry(c) == ALLOWED_MAP[CHOOSE i \in 1..Len(ALLOWED_MAP) : ALLOWED_MAP[i][1] = c]
DbCol(c) == AllowedEntry(c)[2]
TypeOf(c) == AllowedEntry(c)[3]

\* the target columns of the product table that an upload may set
DbCols == {ALLOWED_MAP[i][2] : i \in 1..Len(ALLOWED_MAP)}

\* UNIT_NORMALIZATION: <<key, canonical name>>
u_PIEZA == <<"P","I","E","Z","A">>
u_KG == <<"K","G">>
u_L == <<"L">>
u_M == <<"M">>
u_CAJA == <<"C","A","J","A">>
u_PAQUETE == <<"P","A","Q","U","E","T","E">>
UNIT_NORMALIZATION ==
    { <<<<"P","Z">>, u_PIEZA>>, <<<<"P","Z","A">>, u_PIEZA>>,
      <<<<"P","Z","A","S">>, u_PIEZA>>, <<u_PIEZA, u_PIEZA>>,
      <<<<"P","I","E","Z","A","S">>, u_PIEZA>>,
      <<u_KG, u_KG>>, <<<<"K","I","L","O">>, u_KG>>,
      <<<<"K","I","L","O","G","R","A","M","O">>, u_KG>>,
      <<<<"K","I","L","O","S">>, u_KG>>, <<<<"K","G","S">>, u_KG>>,
      <<u_L, u_L>>, <<<<"L","T">>, u_L>>, <<<<"L","T","S">>, u_L>>,
      <<<<"L","I","T","R","O">>, u_L>>, <<<<"L","I","T","R","O","S">>, u_L>>,
      <<u_M, u_M>>, <<<<"M","T">>, u_M>>, <<<<"M","T","S">>, u_M>>,
      <<<<"M","E","T","R","O">>, u_M>>, <<<<"M","E","T","R","O","S">>, u_M>>,
      <<<<"C","J">>, u_CAJA>>, <<u_CAJA, u_CAJA>>, <<<<"C","A","J">>, u_CAJA>>,
      <<<<"P","A","Q">>, u_PAQUETE>>, <<u_PAQUETE, u_PAQUETE>> }

\* UNIT_NORMALIZATION.get(key, default)
UnitGet(key, default) ==
    IF \E p \in UNIT_NORMALIZATION : p[1] = key
    THEN (CHOOSE p \in UNIT_NORMALIZATION : p[1] = key)[2]
    ELSE default

\* ------------------------------------------------------------------------
\* The coercers of _clean_autocorrect: the value, and whether the call
\* adds one to its counter
\* ------------------------------------------------------------------------
\* the trimmed text without the replacement of the decimal comma
NumTextKeepComma(x) == Strip(PyStr(x))

NumText(x) == ReplaceChar(Strip(PyStr(x)), ",", ".")

parse_num(x) ==
    IF IsNa(x) THEN None
    ELSE IF x.t \in {"int", "float"} THEN FloatV(x.m, x.e)
    ELSE IF Strip(PyStr(x)) = <<>> THEN None
    ELSE IF NumToken(NumText(x)) # <<>> THEN FloatOfToken(NumToken(NumText(x)))
    ELSE None

parse_num_counts(x) ==
    /\ x.t = "str"
    /\ NumToken(NumText(x)) # <<>>
    /\ NumText(x) # NumToken(NumText(x))

TrueTokens == {<<"1">>, <<"t","r","u","e">>, <<"t">>, <<"s","i">>, <<"s","i'">>,
               <<"y">>, <<"y","e","s">>}
FalseTokens == {<<"0">>, <<"f","a","l","s","e">>, <<"f">>, <<"n","o">>, <<"n">>}
BoolText(x) == Lower(Strip(PyStr(x)))

parse_bool(x) ==
    IF IsNa(x) THEN None
    ELSE IF x.t \in {"int", "float"} THEN (IF x.m # 0 THEN IntV(1) ELSE IntV(0))
    ELSE IF BoolText(x) \in TrueTokens THEN IntV(1)
    ELSE IF BoolText(x) \in FalseTokens THEN IntV(0)
    ELSE IF PyFloatOk(ReplaceChar(BoolText(x), ",", "."))
         THEN (IF PyFloatNonZero(ReplaceChar(BoolText(x), ",", ".")) THEN IntV(1) ELSE IntV(0))
    ELSE None

\* the counter raised before float() is tried
parse_bool_counts_early(x) ==
    IF IsNa(x) THEN FALSE
    ELSE IF x.t \in {"int", "float"} THEN ~(x.e = 0 /\ x.m \in {0, 1})
    ELSE IF BoolText(x) \in TrueTokens THEN BoolText(x) \notin {<<"1">>, <<"t","r","u","e">>}
    ELSE IF BoolText(x) \in FalseTokens THEN BoolText(x) \notin {<<"0">>, <<"f","a","l","s","e">>}
    ELSE TRUE

parse_bool_counts(x) ==
    IF IsNa(x) THEN FALSE
    ELSE IF x.t \in {"int", "float"} THEN ~(x.e = 0 /\ x.m \in {0, 1})
    ELSE IF BoolText(x) \in TrueTokens THEN BoolText(x) \notin {<<"1">>, <<"t","r","u","e">>}
    ELSE IF BoolText(x) \in FalseTokens THEN BoolText(x) \notin {<<"0">>, <<"f","a","l","s","e">>}
    ELSE PyFloatOk(ReplaceChar(BoolText(x), ",", "."))

UnitKey(s) == RemoveChar(RemoveChar(Upper(s), "."), " ")

normalize_unit_name(x) ==
    IF IsNa(x) THEN None
    ELSE IF Strip(PyStr(x)) = <<>> THEN None
    ELSE IF IsPlainNumber(Strip(PyStr(x))) THEN None
    ELSE StrV(UnitGet(UnitKey(Strip(PyStr(x))), Upper(Strip(PyStr(x)))))

\* the counter raised on every name found in the synonym table
normalize_unit_name_counts_known(x) ==
    IF IsNa(x) \/ Strip(PyStr(x)) = <<>> THEN FALSE
    ELSE IF IsPlainNumber(Strip(PyStr(x))) THEN TRUE
    ELSE \/ \E p \in UNIT_NORMALIZATION : p[1] = UnitKey(Strip(PyStr(x)))
         \/ UnitGet(UnitKey(Strip(PyStr(x))), Upper(Strip(PyStr(x)))) # Strip(PyStr(x))

normalize_unit_name_counts(x) ==
    IF IsNa(x) \/ Strip(PyStr(x)) = <<>> THEN FALSE
    ELSE IF IsPlainNumber(Strip(PyStr(x))) THEN TRUE
    ELSE UnitGet(UnitKey(Strip(PyStr(x))), Upper(Strip(PyStr(x)))) # Strip(PyStr(x))

\* the lambda applied to 'str' columns
clean_text(x) ==
    IF IsNa(x) \/ Strip(PyStr(x)) = <<>> THEN None ELSE StrV(Strip(PyStr(x)))

\* whether the coercer of one registry type adds one to its counter
CoerceCounts(typ, x) ==
    CASE typ = "num" -> parse_num_counts(x)
      [] typ = "bool" -> parse_bool_counts(x)
      [] typ = "unit" -> normalize_unit_name_counts(x)
      [] OTHER -> FALSE

\* the coercer of one registry type applied to one cell
Coerce(typ, x) ==
    CASE typ = "num" -> parse_num(x)
      [] typ = "bool" -> parse_bool(x)
      [] typ = "unit" -> normalize_unit_name(x)
      [] OTHER -> clean_text(x)

\* ------------------------------------------------------------------------
\* Reading the spreadsheet (pd.read_excel) and normalising its header
\* ------------------------------------------------------------------------
\* a spreadsheet is [cols |-> sequence of raw header texts,
\*                   rows |-> sequence of rows, each a sequence of cells]
ColumnCells(sheet, j) == [i \in 1..Len(sheet.rows) |-> sheet.rows[i][j]]

\* pandas gives a column of numbers float64 as soon as one cell is blank or
\* fractional; a column with any text keeps each scalar as openpyxl read it
ColIsFloat(cells) ==
    /\ \A i \in 1..Len(cells) : cells[i].t \in {"int", "float", "nan"}
    /\ \E i \in 1..Len(cells) : cells[i].t \in {"float", "nan"}

InferCell(x, cells) ==
    IF x.t = "int" /\ ColIsFloat(cells) THEN FloatV(x.m, 0) ELSE x

\* df.columns = [str(c).strip().lower() for c in df.columns]
NormHeader(cols) == [j \in 1..Len(cols) |-> Lower(Strip(cols[j]))]

\* ~df.columns.duplicated(): the positions that are first occurrences
FirstOccurrences(names) ==
    {j \in 1..Len(names) : \A k \in 1..(j - 1) : names[k] # names[j]}

RECURSIVE SeqOfSet(_)
\* the increasing sequence of a set of positions
SeqOfSet(S) ==
    IF S = {} THEN <<>>
    ELSE LET x == CHOOSE y \in S : \A z \in S : y <= z
         IN  <<x>> \o SeqOfSet(S \ {x})

PosOf(names, c) == CHOOSE j \in FirstOccurrences(names) : names[j] = c

\* the data frame after lines 445-451: cols is the sequence of distinct
\* normalised names, each row keeps its index label ix and maps a name to
\* the cell of the first column of that name
ReadFrame(sheet) ==
    LET names == NormHeader(sheet.cols)
        keepj == SeqOfSet(FirstOccurrences(names))
    IN  [cols |-> [k \in 1..Len(keepj) |-> names[keepj[k]]],
         rows |-> [i \in 1..Len(sheet.rows) |->
                    [ix |-> i,
                     c  |-> [n \in {names[j] : j \in 1..Len(names)} |->
                              InferCell(sheet.rows[i][PosOf(names, n)],
                                        ColumnCells(sheet, PosOf(names, n)))]]]]

EmptyFrame == [cols |-> <<>>, rows |-> <<>>]

\* df.empty
IsEmpty(df) == Len(df.cols) = 0 \/ Len(df.rows) = 0

HasCol(df, c) == \E k \in 1..Len(df.cols) : df.cols[k] = c

NoKey == <<>>

\* the two headers tested in the other order
KeyColOfClaveFirst(df) ==
    IF HasCol(df, c_clave) THEN c_clave
    ELSE IF HasCol(df, c_id) THEN c_id
    ELSE NoKey

\* key_col = 'id' if 'id' in df.columns else ('clave' if ... else None)
KeyColOf(df) ==
    IF HasCol(df, c_id) THEN c_id
    ELSE IF HasCol(df, c_clave) THEN c_clave
    ELSE NoKey

\* ------------------------------------------------------------------------
\* _clean_autocorrect
\* ------------------------------------------------------------------------
RECURSIVE FilterSeq(_, _)
\* the subsequence of seq at the positions in S
FilterSeq(seq, S) ==
    IF seq = <<>> THEN <<>>
    ELSE LET rest == FilterSeq(SubSeq(seq, 1, Len(seq) - 1), S)
         IN  IF Len(seq) \in S THEN Append(rest, seq[Len(seq)]) ELSE rest

\* keep = [c for c in df.columns if c in ('id','clave') or c in ALLOWED_MAP]
KeepCols(cols) ==
    FilterSeq(cols, {k \in 1..Len(cols) :
                        cols[k] \in {c_id, c_clave} \/ InAllowedMap(cols[k])})

\* df[key_col].astype(str).str.strip(): the key text of a row
KeyText(row, key_col) == Strip(PyStr(row.c[key_col]))

\* df[key_col].notna() & (df[key_col] != ''), after the conversion to text
KeyKept(row, key_col) == KeyText(row, key_col) # <<>>

\* every column sampled, the key column too
SampleColsAll(cols, key_col) == {cols[k] : k \in 1..Len(cols)}

\* sample_cols = [c for c in df.columns if c != key_col]
SampleCols(cols, key_col) == {cols[k] : k \in 1..Len(cols)} \ {key_col}

\* mask_template of one row
IsTemplateRow(row, cols, key_col) ==
    \E c \in SampleCols(cols, key_col) : Lower(Strip(PyStr(row.c[c]))) = c

\* the cleaned row: key as text, registry columns coerced
CleanRow(row, cols, key_col) ==
    [ix |-> row.ix,
     c  |-> [n \in {cols[k] : k \in 1..Len(cols)} |->
              IF n = key_col THEN StrV(KeyText(row, key_col))
              ELSE IF InAllowedMap(n) THEN Coerce(TypeOf(n), row.c[n])
              ELSE row.c[n]]]

\* how many cells of the rows, in columns of type typ, add to the counter
CountCells(rows, cols, key_col, typ) ==
    Cardinality({<<i, k>> \in (1..Len(rows)) \X (1..Len(cols)) :
                    /\ cols[k] # key_col
                    /\ InAllowedMap(cols[k])
                    /\ TypeOf(cols[k]) = typ
                    /\ CoerceCounts(typ, rows[i].c[cols[k]])})

\* clean_df, report = self._clean_autocorrect(df, key_col)
CleanFrame(df, key_col) ==
    LET cols   == KeepCols(df.cols)
        keyed  == FilterSeq(df.rows, {i \in 1..Len(df.rows) : KeyKept(df.rows[i], key_col)})
        kept   == FilterSeq(keyed, {i \in 1..Len(keyed) :
                                       ~IsTemplateRow(keyed[i], cols, key_col)})
    IN  [cols |-> cols,
         rows |-> [i \in 1..Len(kept) |-> CleanRow(kept[i], cols, key_col)]]

CleanReport(df, key_col) ==
    LET cols   == KeepCols(df.cols)
        keyed  == FilterSeq(df.rows, {i \in 1..Len(df.rows) : KeyKept(df.rows[i], key_col)})
        kept   == FilterSeq(keyed, {i \in 1..Len(keyed) :
                                       ~IsTemplateRow(keyed[i], cols, key_col)})
    IN  [dropped_rows    |-> Len(keyed) - Len(kept),
         num_coerced     |-> CountCells(kept, cols, key_col, "num"),
         bool_coerced    |-> CountCells(kept, cols, key_col, "bool"),
         unit_normalized |-> CountCells(kept, cols, key_col, "unit")]

NoReport == [dropped_rows |-> 0, num_coerced |-> 0, bool_coerced |-> 0, unit_normalized |-> 0]

\* ------------------------------------------------------------------------
\* The database: table unidad, table articulo, and the two statements
\* ------------------------------------------------------------------------
\* rows of table unidad, in the order the SELECT returns them
UnidadTable ==
    << [uni_id |-> 1, nombre |-> <<"P","i","e","z","a">>],
       [uni_id |-> 2, nombre |-> <<"K","g",".">>],
       [uni_id |-> 3, nombre |-> <<"C","a","j","a"," ","c","h","i","c","a">>],
       [uni_id |-> 4, nombre |-> <<"L","t">>] >>

\* SQL_LOOKUPS: UPPER(REPLACE(REPLACE(u.nombre,'.',''),' ','')) AS key_nombre
SQL_LOOKUPS(unidad) ==
    [i \in 1..Len(unidad) |->
        [uni_id     |-> unidad[i].uni_id,
         key_nombre |-> Upper(RemoveChar(RemoveChar(unidad[i].nombre, "."), " "))]]

\* unit_key_to_id: the pairs <<key, uid>> of the dict; a later row with the
\* same key replaces an earlier one, an empty key_nombre is skipped
UnitKeyToId(rows_lookup) ==
    {<<rows_lookup[i].key_nombre, rows_lookup[i].uni_id>> : i \in
        {i \in 1..Len(rows_lookup) :
            /\ rows_lookup[i].key_nombre # <<>>
            /\ \A j \in (i + 1)..Len(rows_lookup) :
                  rows_lookup[j].key_nombre # rows_lookup[i].key_nombre}}

\* to_unit_id(x)
to_unit_id(x, unit_key_to_id) ==
    IF IsNa(x) \/ Strip(PyStr(x)) = <<>> THEN None
    ELSE LET s0  == Upper(Strip(PyStr(x)))
             s   == UnitGet(s0, s0)
             key == RemoveChar(RemoveChar(s, " "), ".")
         IN  IF \E p \in unit_key_to_id : p[1] = key
             THEN IntV((CHOOSE p \in unit_key_to_id : p[1] = key)[2])
             ELSE None

\* for col in ('unidad_compra', 'unidad_venta'): clean_df[col].apply(to_unit_id)
ResolveUnits(cdf, unit_key_to_id) ==
    [cdf EXCEPT !.rows =
        [i \in 1..Len(cdf.rows) |->
            [cdf.rows[i] EXCEPT !.c =
                [n \in DOMAIN cdf.rows[i].c |->
                    IF n \in {c_unidad_compra, c_unidad_venta}
                    THEN to_unit_id(cdf.rows[i].c[n], unit_key_to_id)
                    ELSE cdf.rows[i].c[n]]]]]

\* update_cols = [c for c in clean_df.columns if c in ALLOWED_MAP]
UpdateCols(cols) == FilterSeq(cols, {k \in 1..Len(cols) : InAllowedMap(cols[k])})

\* where_col = 'art_id' if key_col == 'id' else 'clave'
WhereCol(key_col) == IF key_col = c_id THEN "art_id" ELSE "clave"

\* _to_py_mysql(v)
to_py_mysql(v) ==
    IF v.t = "str" THEN (IF Strip(v.s) = <<>> THEN None ELSE StrV(Strip(v.s)))
    ELSE v

\* rows = df_to_mysql_params(clean_df[present]): one dict per row
df_to_mysql_params(cdf, present) ==
    [i \in 1..Len(cdf.rows) |-> [n \in present |-> to_py_mysql(cdf.rows[i].c[n])]]

\* the articulo rows the initial database holds; every target column holds
\* a value no upload of the model binds
OldValue(dbcol) ==
    CASE dbcol \in {"descripcion", "clavealterna"} -> StrV(<<"o","l","d">>)
      [] dbcol \in {"servicio", "granel"} -> IntV(7)
      [] dbcol \in {"unidadCompra", "unidadVenta"} -> IntV(9)
      [] OTHER -> FloatV(995, 1)

Fields == {"art_id", "clave"} \cup DbCols

Articulo(id, clave) ==
    [f \in Fields |->
        IF f = "art_id" THEN IntV(id)
        ELSE IF f = "clave" THEN StrV(clave)
        ELSE OldValue(f)]

InitialDb == {Articulo(1, <<"A">>), Articulo(2, <<"B">>)}

\* an UPDATE without its WHERE clause
MatchesAll(art, where_col, key) == TRUE

\* WHERE art_id = %(id)s / WHERE clave = %(clave)s with a text parameter:
\* MySQL compares a number column with the number the text denotes, and a
\* text column with the text
Matches(art, where_col, key) ==
    IF where_col = "art_id"
    THEN /\ PyFloatIsDecimal(key.s)
         /\ Head(key.s) # "+"
         /\ FloatOfToken(key.s) = FloatV(art.art_id.m, 0)
    ELSE art.clave.s = key.s

\* a plain assignment dbcol=%(c)s
CoalesceOverwrite(new, old) == new

\* COALESCE(%(c)s, dbcol)
Coalesce(new, old) == IF new = None THEN old ELSE new

\* UPDATE articulo SET dbcol=COALESCE(%(c)s,dbcol), ... WHERE where_col=%(key)s
\* executed with the parameters of one row
UpdateOne(table, update_cols, where_col, key_col, row) ==
    {IF Matches(art, where_col, row[key_col])
     THEN [f \in Fields |->
            IF \E k \in 1..Len(update_cols) : DbCol(update_cols[k]) = f
            THEN Coalesce(row[CHOOSE c \in {update_cols[k] : k \in 1..Len(update_cols)} :
                                 DbCol(c) = f], art[f])
            ELSE art[f]]
     ELSE art : art \in table}

RECURSIVE UpdateMany(_, _, _, _, _, _)
\* the table after the statement ran for the first n rows, in order
UpdateMany(table, update_cols, where_col, key_col, rows, n) ==
    IF n = 0 THEN table
    ELSE UpdateOne(UpdateMany(table, update_cols, where_col, key_col, rows, n - 1),
                   update_cols, where_col, key_col, rows[n])

\* a connection that commits every statement on its own
AutocommitOn == TRUE

\* pymysql.connect(..., autocommit=False)
Autocommit == FALSE

\* pymysql's Connection.close() raises Error("Already closed") when the
\* connection was closed before
CloseRaises(conn_state) == conn_state = "closed"

\* ------------------------------------------------------------------------
\* The input files the uploads are run on
\* ------------------------------------------------------------------------
\* a layout is a sequence of <<raw header text, the cells drawn for it>>
Layouts ==
    { \* a column the registry does not know, and no key column
      << <<<<"N","o","t","a","s">>,
           {StrV(<<"x">>), StrV(<<"n","o","t","a","s">>)}>> >>,
      \* a key column only
      << <<<<"I","D">>, {IntV(1), None}>> >>,
      \* id and clave together, one numeric column
      << <<<<" ","i","d">>, {IntV(1), StrV(<<" "," ">>)}>>,
         <<<<"c","l","a","v","e">>, {StrV(<<"A">>), StrV(<<"C","l","a","v","e"," ">>)}>>,
         <<<<"e","x","i","s","t","e","n","c","i","a">>,
           {StrV(<<"1","0",",","5">>), None, StrV(<<"7"," ","k","g">>)}>> >>,
      \* clave as key, a text column and an unknown column
      << <<<<"C","l","a","v","e">>,
           {StrV(<<" ","A"," ">>), StrV(<<"c","l","a","v","e">>), None}>>,
         <<<<"d","e","s","c","r","i","p","c","i","o","n">>,
           {StrV(<<" ","P","a","n"," ">>), StrV(<<"D","e","s","c","r","i","p","c","i","o","n">>),
            StrV(<<"c","l","a","v","e">>)}>>,
         <<<<"n","o","t","a","s">>, {StrV(<<"n","o","t","a","s">>)}>> >>,
      \* a unit column and a boolean column
      << <<<<"i","d">>, {IntV(2), None}>>,
         <<<<"u","n","i","d","a","d","_","v","e","n","t","a">>,
           {StrV(<<"P","z","a","s",".">>), StrV(<<"X","Y","Z">>), IntV(5)}>>,
         <<<<"s","e","r","v","i","c","i","o">>,
           {StrV(<<"S","I">>), StrV(<<"q","u","i","z","a","s">>)}>> >>,
      \* the same header twice
      << <<<<"i","d">>, {IntV(2)}>>,
         <<<<"e","x","i","s","t","e","n","c","i","a">>, {IntV(4), None}>>,
         <<<<"E","x","i","s","t","e","n","c","i","a"," ">>, {IntV(8)}>> >> }

\* the rows a layout allows: one cell of its set per column
LayoutRows(lay) == {r \in [1..Len(lay) -> UNION {lay[j][2] : j \in 1..Len(lay)}] :
                       \A j \in 1..Len(lay) : r[j] \in lay[j][2]}

RECURSIVE SeqsUpTo(_, _)
\* the sequences over S of length at most n
SeqsUpTo(S, n) ==
    IF n = 0 THEN {<<>>}
    ELSE LET shorter == SeqsUpTo(S, n - 1)
         IN  shorter \cup {Append(q, x) : q \in {z \in shorter : Len(z) = n - 1}, x \in S}

NoSheet == [cols |-> <<>>, rows |-> <<>>]

Files ==
    {[kind |-> "notxlsx", sheet |-> NoSheet], [kind |-> "unreadable", sheet |-> NoSheet],
     [kind |-> "ok", sheet |-> NoSheet]}
    \cup UNION {{[kind |-> "ok",
                   sheet |-> [cols |-> [j \in 1..Len(lay) |-> lay[j][1]], rows |-> rs]] :
                     rs \in SeqsUpTo(LayoutRows(lay), MaxRows)} : lay \in Layouts}

\* ------------------------------------------------------------------------
\* State
\* ------------------------------------------------------------------------
VARIABLES
    file,       \* the file the upload is run on
    pc,         \* position of upload_excel_to_db
    df,         \* the data frame after the header was normalised
    key_col,    \* the selected key column, NoKey before the selection
    clean_df,   \* the cleaned frame (units resolved once the lookup ran)
    report,     \* the report of _clean_autocorrect
    sql_upd,    \* the UPDATE statement: its SET columns and WHERE column
    rows,       \* the parameters bound to the bulk update
    conn,       \* "none", "open" or "closed"
    db,         \* table articulo as committed
    tx,         \* table articulo as the open transaction sees it
    applied,    \* how many parameter rows the server ran the UPDATE for
    trace,      \* the calls made on the connection, in order
    msgs        \* the message boxes shown, in order

vars == <<file, pc, df, key_col, clean_df, report, sql_upd, rows, conn, db, tx, applied,
          trace, msgs>>

Call(op, ok) == [op |-> op, ok |-> ok]
Msg(kind, title) == [kind |-> kind, title |-> title, used |-> 0, report |-> NoReport]
NoSql == [set |-> <<>>, where |-> ""]

Init ==
    /\ file \in Files
    /\ pc = "start"
    /\ df = EmptyFrame
    /\ key_col = NoKey
    /\ clean_df = EmptyFrame
    /\ report = NoReport
    /\ sql_upd = NoSql
    /\ rows = <<>>
    /\ conn = "none"
    /\ db = InitialDb
    /\ tx = InitialDb
    /\ applied = 0
    /\ trace = <<>>
    /\ msgs = <<>>

\* ------------------------------------------------------------------------
\* upload_excel_to_db, lines 440-458: read, check, select the key, clean
\* ------------------------------------------------------------------------
\* the message boxes of _read_excel_safe and of the checks up to line 456
ReadMessages(f) ==
    IF f.kind = "notxlsx" THEN <<Msg("warning", "Formato no soportado")>>
    ELSE IF f.kind = "unreadable"
         THEN <<Msg("critical", "Error al leer"), Msg("warning", "Excel vacio")>>
    ELSE IF IsEmpty(ReadFrame(f.sheet)) THEN <<Msg("warning", "Excel vacio")>>
    ELSE IF KeyColOf(ReadFrame(f.sheet)) = NoKey
         THEN <<Msg("critical", "Sin identificador")>>
    ELSE <<>>

Prepare ==
    /\ pc = "start"
    /\ msgs' = msgs \o ReadMessages(file)
    /\ IF ReadMessages(file) # <<>>
       THEN /\ pc' = "done"
            /\ UNCHANGED <<df, key_col, clean_df, report>>
       ELSE /\ df' = ReadFrame(file.sheet)
            /\ key_col' = KeyColOf(df')
            /\ clean_df' = CleanFrame(df', key_col')
            /\ report' = CleanReport(df', key_col')
            /\ pc' = "connect"
    /\ UNCHANGED <<file, sql_upd, rows, conn, db, tx, applied, trace>>

\* ------------------------------------------------------------------------
\* lines 460-466: pymysql.connect
\* ------------------------------------------------------------------------
Connect ==
    /\ pc = "connect"
    /\ \E ok \in BOOLEAN :
        /\ trace' = Append(trace, Call("connect", ok))
        /\ IF ok
           THEN /\ conn' = "open"
                /\ tx' = db
                /\ pc' = "lookup"
                /\ msgs' = msgs
           ELSE /\ msgs' = Append(msgs, Msg("critical", "Error al subir"))
                /\ pc' = "done"
                /\ UNCHANGED <<conn, tx>>
    /\ UNCHANGED <<file, df, key_col, clean_df, report, sql_upd, rows, db, applied>>

\* ------------------------------------------------------------------------
\* lines 467-506: SQL #1, unit resolution, building the UPDATE
\* ------------------------------------------------------------------------
\* the calls of one cur.execute(SQL_LOOKUPS)
LookupCalls(ok) == <<Call("execute SELECT", ok)>>

\* lines 501-505 followed by the finally clause of line 528
NoColumnsCalls ==
    <<Call("rollback", TRUE), Call("close", TRUE), Call("close", ~CloseRaises("closed"))>>

Lookup ==
    /\ pc = "lookup"
    /\ \E ok \in BOOLEAN :
        IF ~ok
        THEN /\ trace' = trace \o LookupCalls(FALSE)
             /\ pc' = "except"
             /\ UNCHANGED <<clean_df, sql_upd, rows, conn, tx, msgs>>
        ELSE /\ clean_df' = ResolveUnits(clean_df, UnitKeyToId(SQL_LOOKUPS(UnidadTable)))
             /\ IF UpdateCols(clean_df.cols) = <<>>
                THEN /\ trace' = trace \o LookupCalls(TRUE) \o NoColumnsCalls
                     /\ msgs' = msgs \o <<Msg("warning", "Sin columnas de datos")>>
                                     \o (IF CloseRaises("closed")
                                         THEN <<Msg("critical", "Error al subir")>>
                                         ELSE <<>>)
                     /\ tx' = db
                     /\ conn' = "closed"
                     /\ pc' = "done"
                     /\ UNCHANGED <<sql_upd, rows>>
                ELSE /\ trace' = trace \o LookupCalls(TRUE)
                     /\ sql_upd' = [set |-> UpdateCols(clean_df.cols),
                                    where |-> WhereCol(key_col)]
                     /\ rows' = df_to_mysql_params(clean_df',
                                   {sql_upd'.set[k] : k \in 1..Len(sql_upd'.set)} \cup {key_col})
                     /\ pc' = "update"
                     /\ UNCHANGED <<conn, tx, msgs>>
    /\ UNCHANGED <<file, df, key_col, report, db, applied>>

\* ------------------------------------------------------------------------
\* lines 508-511: SQL #2, cur.executemany(sql_upd, rows)
\* ------------------------------------------------------------------------
\* a loop of one statement per row instead of one bulk call
UpdateCallsPerRow(params, ok) == [i \in 1..Len(params) |-> Call("executemany UPDATE", ok)]

\* the calls of one cur.executemany(sql_upd, rows)
UpdateCalls(params, ok) == <<Call("executemany UPDATE", ok)>>

ExecuteMany ==
    /\ pc = "update"
    /\ \E n \in 0..Len(rows), ok \in BOOLEAN :
        /\ ok => n = Len(rows)
        /\ tx' = UpdateMany(tx, sql_upd.set, sql_upd.where, key_col, rows, n)
        /\ applied' = n
        /\ db' = IF Autocommit THEN tx' ELSE db
        /\ trace' = trace \o UpdateCalls(rows, ok)
        /\ pc' = IF ok THEN "commit" ELSE "except"
    /\ UNCHANGED <<file, df, key_col, clean_df, report, sql_upd, rows, conn, msgs>>

\* ------------------------------------------------------------------------
\* lines 512-522 and 527-528: commit, report, close
\* ------------------------------------------------------------------------
Commit ==
    /\ pc = "commit"
    /\ \E ok \in BOOLEAN :
        IF ok
        THEN /\ db' = tx
             /\ trace' = trace \o <<Call("commit", TRUE), Call("close", ~CloseRaises(conn))>>
             /\ msgs' = Append(msgs, [kind |-> "information", title |-> "Subida completada",
                                      used |-> Len(rows), report |-> report])
             /\ conn' = "closed"
             /\ pc' = "done"
        ELSE /\ trace' = Append(trace, Call("commit", FALSE))
             /\ pc' = "except"
             /\ UNCHANGED <<db, msgs, conn>>
    /\ UNCHANGED <<file, df, key_col, clean_df, report, sql_upd, rows, tx, applied>>

\* ------------------------------------------------------------------------
\* lines 523-530: rollback, close, the failure is shown
\* ------------------------------------------------------------------------
Except ==
    /\ pc = "except"
    /\ tx' = db
    /\ trace' = trace \o <<Call("rollback", TRUE), Call("close", ~CloseRaises(conn))>>
    /\ msgs' = Append(msgs, Msg("critical", "Error al subir"))
    /\ conn' = "closed"
    /\ pc' = "done"
    /\ UNCHANGED <<file, df, key_col, clean_df, report, sql_upd, rows, db, applied>>

Next == Prepare \/ Connect \/ Lookup \/ ExecuteMany \/ Commit \/ Except

Spec == Init /\ [][Next]_vars

\* ------------------------------------------------------------------------
\* Vocabulary of the properties
\* ------------------------------------------------------------------------
Done == pc = "done"
Committed == \E i \in 1..Len(trace) : trace[i] = Call("commit", TRUE)
Opened == \E i \in 1..Len(trace) : trace[i] = Call("connect", TRUE)
RolledBack == \E i \in 1..Len(trace) : trace[i] = Call("rollback", TRUE)
UpdateIssued == \E i \in 1..Len(trace) : trace[i].op = "executemany UPDATE"

IsStatement(call) == call.op \in {"execute SELECT", "executemany UPDATE"}
\* the statements issued so far, in order
Statements == [i \in 1..Len(SelectSeq(trace, IsStatement)) |->
                 SelectSeq(trace, IsStatement)[i].op]

\* the normalised header names of the input spreadsheet
HeaderSet == {Lower(Strip(file.sheet.cols[j])) : j \in 1..Len(file.sheet.cols)}

\* the row of the initial table with the identifier of art
OldArt(art) == CHOOSE a \in InitialDb : a.art_id = art.art_id

IsFailure(msg) == msg.kind \in {"warning", "critical"}
Failures == SelectSeq(msgs, IsFailure)
Titles == {msgs[i].title : i \in 1..Len(msgs)}

\* C1: the statements of one upload are at most one SELECT of the unit
\* table followed by at most one bulk UPDATE, nothing else; a committed
\* upload issued exactly one of each, for any number of rows and with or
\* without a unit column.
C1_TwoStatements ==
    /\ Statements \in {<<>>, <<"execute SELECT">>,
                       <<"execute SELECT", "executemany UPDATE">>}
    /\ Committed => Statements = <<"execute SELECT", "executemany UPDATE">>

C1_Witness ==
    /\ Done /\ Committed
    /\ Len(rows) >= 2
    /\ ~HasCol(clean_df, c_unidad_venta) /\ ~HasCol(clean_df, c_unidad_compra)
    /\ Statements = <<"execute SELECT", "executemany UPDATE">>

\* the table after the whole batch ran on the initial table
AllApplied == UpdateMany(InitialDb, sql_upd.set, sql_upd.where, key_col, rows, Len(rows))

\* C2: the committed table is never partly updated: it is the initial table
\* until a commit succeeds and the initial table with every row of the
\* batch applied afterwards; an upload that opened a connection ends in
\* one of the two, and a failed bulk update leaves the initial table.
C2_Atomic ==
    /\ ~Committed => db = InitialDb
    /\ Committed => db = AllApplied
    /\ (Done /\ Opened) => Committed \/ RolledBack

C2_Witness ==
    /\ Done /\ ~Committed
    /\ Len(rows) >= 2
    /\ applied >= 1 /\ applied < Len(rows)
    /\ UpdateMany(InitialDb, sql_upd.set, sql_upd.where, key_col, rows, applied) # InitialDb
    /\ db = InitialDb

\* the records of the batch that address art and carry a value for column c
NonNullFor(art, c) ==
    {i \in 1..Len(rows) : Matches(art, sql_upd.where, rows[i][key_col]) /\ rows[i][c] # None}

SetCols == {sql_upd.set[k] : k \in 1..Len(sql_upd.set)}

\* C3 as stated: after a commit, for every record and every mapped field of
\* the spreadsheet, the addressed row holds its old value if the coerced
\* value is null and the coerced value otherwise.
C3_Original ==
    Committed =>
        \A i \in 1..Len(rows), art \in db, c \in SetCols :
            Matches(art, sql_upd.where, rows[i][key_col]) =>
                art[DbCol(c)] = IF rows[i][c] = None THEN OldArt(art)[DbCol(c)] ELSE rows[i][c]

\* C3: after a commit every mapped column of the spreadsheet holds, in each
\* product row, the coerced value of the last record of the batch that
\* addresses the row with a non-null value for it, and its old value when
\* no record does; a null never clears or overwrites a value.
C3_PreserveOnNull ==
    Committed =>
        \A art \in db, c \in SetCols :
            art[DbCol(c)] =
                IF NonNullFor(art, c) = {} THEN OldArt(art)[DbCol(c)]
                ELSE rows[CHOOSE i \in NonNullFor(art, c) :
                            \A j \in NonNullFor(art, c) : j <= i][c]

C3_Witness ==
    /\ Done /\ Committed
    /\ \E art \in db, c \in SetCols, i \in 1..Len(rows), j \in 1..Len(rows) :
          /\ i < j
          /\ Matches(art, sql_upd.where, rows[i][key_col])
          /\ Matches(art, sql_upd.where, rows[j][key_col])
          /\ rows[i][c] # None
          /\ rows[j][c] = None
          /\ art[DbCol(c)] = rows[i][c]
          /\ art[DbCol(c)] # OldArt(art)[DbCol(c)]

FatalTitles == {"Error al leer", "Excel vacio", "Sin identificador", "Sin columnas de datos"}

\* C4 as stated: an upload that stops on a fatal input condition (file
\* unreadable, input empty, no id or clave column, no editable field) has
\* opened no connection and issued no statement.
C4_NoDatabaseOnFatal ==
    (Titles \cap FatalTitles # {}) => trace = <<>>

\* C5 as stated: a failing upload shows exactly one failure message, and a
\* committed upload shows none.
C5_SingleFailure ==
    Done => Len(Failures) = IF Committed THEN 0 ELSE 1

\* the key text of a bound record denotes the key of the product row art:
\* the identifier written as an integer or as a float, or the clave itself
KeyEquals(art, i) ==
    IF key_col = c_id
    THEN rows[i][key_col].s \in {PyStr(IntV(art.art_id.m)), PyStr(FloatV(art.art_id.m, 0))}
    ELSE rows[i][key_col].s = art.clave.s

\* the target columns whose source column is in the registry and in the header
PresentTargets == {DbCol(c) : c \in {h \in HeaderSet : InAllowedMap(h)}}

\* C6: a committed upload changes only product rows whose key equals the
\* key of a batch record, and in them only the target columns whose source
\* column is in the registry and in the spreadsheet header; art_id, clave
\* and every other column keep their values in every row.
C6_Frame ==
    Committed =>
        \A art \in db, f \in Fields :
            art[f] # OldArt(art)[f] =>
                /\ \E i \in 1..Len(rows) : KeyEquals(art, i)
                /\ f \in PresentTargets
                /\ f \notin {"art_id", "clave"}

C6_Witness ==
    /\ Done /\ Committed
    /\ \E art \in db : art \notin InitialDb
    /\ \E art \in db : art \in InitialDb
    /\ \E h \in HeaderSet : ~InAllowedMap(h) /\ h \notin {c_id, c_clave}
    /\ PresentTargets # DbCols

\* the position of the selected key column in the spreadsheet
KeyPos == PosOf(NormHeader(file.sheet.cols), key_col)

\* a blank cell: absent, empty or whitespace only
IsBlank(x) == x.t = "nan" \/ (x.t = "str" /\ Strip(x.s) = <<>>)

\* C7 as stated: no input row with a blank key cell is among the rows bound
\* to the bulk update.
C7_BlankKeyDropped ==
    UpdateIssued =>
        \A k \in 1..Len(clean_df.rows) : ~IsBlank(file.sheet.rows[clean_df.rows[k].ix][KeyPos])

\* the index labels of the rows that were kept
KeptIx == {clean_df.rows[k].ix : k \in 1..Len(clean_df.rows)}

\* the key text of input row i is not empty
HasKeyText(i) == Strip(PyStr(df.rows[i].c[key_col])) # <<>>

\* the text of cell n of input row i names column n
NamesOwnColumn(i, n) == Lower(Strip(PyStr(df.rows[i].c[n]))) = n

\* some cell of row i outside the key column names its own column
EchoAnyColumn(i) == \E n \in HeaderSet \ {key_col} : NamesOwnColumn(i, n)

\* the same, over the columns the cleaning keeps: registry columns and the
\* id / clave column that was not selected
EchoKnownColumn(i) ==
    \E n \in HeaderSet \ {key_col} :
        (InAllowedMap(n) \/ n \in {c_id, c_clave}) /\ NamesOwnColumn(i, n)

\* C8 as stated: a row is dropped as an echo row and counted in rowsDropped
\* exactly when some cell outside the key column names its own column.
C8_Original ==
    key_col # NoKey =>
        /\ \A i \in 1..Len(df.rows) : (HasKeyText(i) /\ i \notin KeptIx) <=> EchoAnyColumn(i)
        /\ report.dropped_rows = Cardinality({i \in 1..Len(df.rows) : EchoAnyColumn(i)})

\* C8: a row whose key text is not empty is dropped as an echo row and
\* counted in rowsDropped exactly when some cell of a registry column, or of
\* the id / clave column that is not the key, names its own column; a name
\* in the key column, in another column or in an unknown column keeps it.
C8_EchoRows ==
    key_col # NoKey =>
        /\ \A i \in 1..Len(df.rows) : HasKeyText(i) => (i \notin KeptIx <=> EchoKnownColumn(i))
        /\ report.dropped_rows =
              Cardinality({i \in 1..Len(df.rows) : HasKeyText(i) /\ EchoKnownColumn(i)})

C8_Witness ==
    /\ key_col # NoKey
    /\ report.dropped_rows = 1
    /\ \E i \in 1..Len(df.rows) : i \notin KeptIx /\ HasKeyText(i) /\ EchoKnownColumn(i)
    /\ \E i \in KeptIx :
          /\ Lower(Strip(PyStr(df.rows[i].c[key_col]))) = key_col
          /\ \E n \in HeaderSet \ {key_col} :
                Lower(Strip(PyStr(df.rows[i].c[n]))) \in HeaderSet \ {n}

\* the key column the header set calls for
ExpectedKey == IF c_id \in HeaderSet THEN c_id ELSE c_clave

\* the key is the one the header set calls for, and the statement and every
\* bound record address rows by it alone
KeyIsHomogeneous ==
    /\ key_col # NoKey => key_col = ExpectedKey /\ key_col \in HeaderSet
    /\ sql_upd # NoSql =>
          sql_upd.where = (IF ExpectedKey = c_id THEN "art_id" ELSE "clave")
    /\ \A i \in 1..Len(rows) : DOMAIN rows[i] \cap {c_id, c_clave} = {key_col}

NoKeyHeader == file.kind = "ok" /\ c_id \notin HeaderSet /\ c_clave \notin HeaderSet

\* C9 as stated: the key is id when the header has id, else clave, one key
\* column for the whole batch, and an upload whose header has neither fails
\* with the no-identifier error.
C9_Original ==
    /\ KeyIsHomogeneous
    /\ (Done /\ NoKeyHeader) => "Sin identificador" \in Titles

\* C9: the key is id when the header has id, else clave, one key column for
\* the whole batch; an upload of a spreadsheet that is not empty and whose
\* header has neither fails with the no-identifier error before any
\* database access.
C9_KeyChoice ==
    /\ KeyIsHomogeneous
    /\ (Done /\ NoKeyHeader /\ Len(file.sheet.rows) > 0) =>
          /\ Titles = {"Sin identificador"}
          /\ trace = <<>>

C9_Witness ==
    /\ Done /\ Committed
    /\ c_id \in HeaderSet /\ c_clave \in HeaderSet
    /\ key_col = c_id
    /\ sql_upd.where = "art_id"
    /\ Len(rows) >= 2

\* how many cells of registry type typ, in rows that were kept, took a
\* correction
KeptCorrections(typ) ==
    Cardinality({<<i, n>> \in KeptIx \X {h \in HeaderSet : InAllowedMap(h)} :
                    /\ TypeOf(n) = typ
                    /\ \/ typ = "num" /\ parse_num_counts(df.rows[i].c[n])
                       \/ typ = "bool" /\ parse_bool_counts(df.rows[i].c[n])
                       \/ typ = "unit" /\ normalize_unit_name_counts(df.rows[i].c[n])})

\* C10 as stated: in the report of a committed upload rowsUsed + rowsDropped
\* is the number of input rows, and the three correction counters count the
\* cells of the kept rows only.
C10_Accounting ==
    (Done /\ Committed) =>
        LET shown == msgs[Len(msgs)]
        IN  /\ shown.used + shown.report.dropped_rows = Len(file.sheet.rows)
            /\ shown.report.num_coerced = KeptCorrections("num")
            /\ shown.report.bool_coerced = KeptCorrections("bool")
            /\ shown.report.unit_normalized = KeptCorrections("unit")

\* ------------------------------------------------------------------------
\* The coercers on cells of their own: a spreadsheet of one row with key
\* id = 1 and one registry column whose cell is drawn from a set of texts
\* ------------------------------------------------------------------------
\* largest number of pieces a drawn text is made of
MaxParts == 3

RECURSIVE Texts(_, _)
\* the texts made of at most n pieces of P, one after the other
Texts(P, n) ==
    IF n = 0 THEN {<<>>}
    ELSE Texts(P, n - 1) \cup {t \o q : t \in Texts(P, n - 1), q \in P}

\* the one-row spreadsheet with key 1 and cell x in column col
OneCellFile(col, x) ==
    [kind |-> "ok", sheet |-> [cols |-> <<c_id, col>>, rows |-> << <<IntV(1), x>> >>]]

\* the state before upload_excel_to_db runs on one of the files
StartOn(files) ==
    /\ file \in files
    /\ pc = "start"
    /\ df = EmptyFrame
    /\ key_col = NoKey
    /\ clean_df = EmptyFrame
    /\ report = NoReport
    /\ sql_upd = NoSql
    /\ rows = <<>>
    /\ conn = "none"
    /\ db = InitialDb
    /\ tx = InitialDb
    /\ applied = 0
    /\ trace = <<>>
    /\ msgs = <<>>

\* the cell the one-row spreadsheet carries, and what the cleaning made of it
InCell == file.sheet.rows[1][2]
Cleaned == pc = "connect" /\ Len(clean_df.rows) = 1
OutCell == clean_df.rows[1].c[file.sheet.cols[2]]

NumPieces == {<<"1","2">>, <<"1","0">>, <<".","5">>, <<",","5">>, <<" ">>, <<"k","g">>,
              <<" ","k","g">>, <<"-">>}

InitNum == StartOn({OneCellFile(c_existencia, StrV(t)) : t \in Texts(NumPieces, MaxParts)})

\* the cleaning of a numeric cell: lines 440-458 with _clean_autocorrect
SpecNum == InitNum /\ [][Prepare]_vars

\* a text of the shape -?\d+(\.\d+)?
IsNumberText(t) ==
    /\ t # <<>>
    /\ LET u == IF Head(t) = "-" THEN Tail(t) ELSE t
       IN  \E k \in 1..Len(u) :
              /\ \A i \in 1..k : IsDigit(u[i])
              /\ \/ k = Len(u)
                 \/ /\ k + 2 <= Len(u)
                    /\ u[k + 1] = "."
                    /\ \A i \in (k + 2)..Len(u) : IsDigit(u[i])

\* the trimmed text of the cell with its commas turned into points
CommaNormal == ReplaceChar(Strip(InCell.s), ",", ".")

\* the places <<p, q>> of the number texts inside CommaNormal
NumberPlaces ==
    {pq \in (1..Len(CommaNormal)) \X (1..Len(CommaNormal)) :
        pq[1] <= pq[2] /\ IsNumberText(SubSeq(CommaNormal, pq[1], pq[2]))}

\* the first number text: the leftmost start, and the longest from there
FirstNumber ==
    LET pq == CHOOSE a \in NumberPlaces :
                 \A b \in NumberPlaces : a[1] < b[1] \/ (a[1] = b[1] /\ a[2] >= b[2])
    IN  SubSeq(CommaNormal, pq[1], pq[2])

\* C11: for a textual cell the numeric coercer returns the value of the
\* first number text (optional minus, digits, optional fraction) of the
\* trimmed, comma-normalised text and counts a correction exactly when that
\* number text is not the whole of it; without a number text it returns
\* null, counts nothing and raises nothing.
C11_NumericCoercer ==
    (pc # "start" /\ InCell.t = "str" /\ file.sheet.cols[2] = c_existencia) =>
        /\ Cleaned
        /\ msgs = <<>>
        /\ IF NumberPlaces = {}
           THEN OutCell = None /\ report.num_coerced = 0
           ELSE /\ OutCell = FloatOfToken(FirstNumber)
                /\ report.num_coerced = IF FirstNumber # CommaNormal THEN 1 ELSE 0

C11_Witness ==
    /\ Cleaned
    /\ InCell = StrV(<<"1","2",".","5"," ","k","g">>)
    /\ OutCell = FloatV(125, 1)
    /\ report.num_coerced = 1

BoolPieces == {<<"1">>, <<"0">>, <<"t">>, <<"r","u","e">>, <<"S","i">>, <<"s","I'">>,
               <<"Y">>, <<"e","s">>, <<"n">>, <<"o">>, <<"F">>, <<"a","l","s","e">>,
               <<" ">>, <<",">>, <<"a","n">>}

BoolCells == {StrV(t) : t \in Texts(BoolPieces, MaxParts)}
             \cup {None, IntV(0), IntV(1), IntV(2), FloatV(15, 1)}

InitBool == StartOn({OneCellFile(c_servicio, x) : x \in BoolCells})

\* the cleaning of a boolean cell: lines 440-458 with _clean_autocorrect
SpecBool == InitBool /\ [][Prepare]_vars

YesWords == {<<"1">>, <<"t","r","u","e">>, <<"t">>, <<"s","i">>, <<"s","i'">>,
             <<"y">>, <<"y","e","s">>}
NoWords == {<<"0">>, <<"f","a","l","s","e">>, <<"f">>, <<"n","o">>, <<"n">>}
PlainWords == {<<"1">>, <<"0">>, <<"t","r","u","e">>, <<"f","a","l","s","e">>}

\* the trimmed text of the cell in lower case
Word == Lower(Strip(InCell.s))

\* what the boolean coercer is to return for the cell
BoolExpected ==
    IF InCell.t = "nan" THEN None
    ELSE IF InCell.t # "str" THEN (IF InCell.m = 0 THEN IntV(0) ELSE IntV(1))
    ELSE IF Word \in YesWords THEN IntV(1)
    ELSE IF Word \in NoWords THEN IntV(0)
    ELSE IF ~PyFloatOk(ReplaceChar(Word, ",", ".")) THEN None
    ELSE IF PyFloatNonZero(ReplaceChar(Word, ",", ".")) THEN IntV(1)
    ELSE IntV(0)

\* the input is a number equal to 0 or 1, or one of the words 1, 0, true, false
IsPlainBool ==
    \/ InCell.t \in {"int", "float"} /\ InCell.e = 0 /\ InCell.m \in {0, 1}
    \/ InCell.t = "str" /\ Word \in PlainWords

BoolCleaned == pc # "start" /\ file.sheet.cols[2] = c_servicio

\* C12 as stated: the boolean coercer returns true / false / null as
\* described, and counts a correction exactly when the input is neither a
\* number equal to 0 or 1 nor one of the words 1, 0, true, false.
C12_Original ==
    BoolCleaned =>
        /\ Cleaned
        /\ OutCell = BoolExpected
        /\ report.bool_coerced = IF IsPlainBool THEN 0 ELSE 1

\* C12: the boolean coercer returns true for a nonzero number and the words
\* 1, true, t, si, sí, y, yes, false for the number 0 and the words 0,
\* false, f, no, n, else the truth value of a comma-normalised numeric
\* parse, and null when nothing parses; it counts a correction exactly when
\* it returns a value and the input is neither a number equal to 0 or 1 nor
\* one of the words 1, 0, true, false.
C12_BooleanCoercer ==
    BoolCleaned =>
        /\ Cleaned
        /\ OutCell = BoolExpected
        /\ report.bool_coerced = IF IsPlainBool \/ OutCell = None THEN 0 ELSE 1

C12_Witness ==
    /\ Cleaned
    /\ file.sheet.cols[2] = c_servicio
    /\ InCell = StrV(<<"Y","e","s">>)
    /\ OutCell = IntV(1)
    /\ report.bool_coerced = 1

UnitPieces == {<<"P","z">>, <<"a","s">>, <<"a">>, <<".">>, <<" ">>, <<"k">>, <<"G">>,
               <<"i","l","o">>, <<"X">>, <<"5">>, <<",">>, <<"P","I","E","Z","A">>}

UnitCells == {StrV(t) : t \in Texts(UnitPieces, MaxParts)}
             \cup {None, IntV(5), IntV(-5), FloatV(15, 1)}

InitUnit == StartOn({OneCellFile(c_unidad_venta, x) : x \in UnitCells})

\* the cleaning of a unit cell: lines 440-458 with _clean_autocorrect
SpecUnit == InitUnit /\ [][Prepare]_vars

UnitCleaned == pc # "start" /\ file.sheet.cols[2] = c_unidad_venta

\* C13: the name the unit-name coercer returns for a cell, when it is not
\* null, is returned unchanged by the coercer and counts no correction.
C13_UnitIdempotent ==
    (UnitCleaned /\ Cleaned /\ OutCell # None) =>
        /\ normalize_unit_name(OutCell) = OutCell
        /\ ~normalize_unit_name_counts(OutCell)

C13_Witness ==
    /\ UnitCleaned /\ Cleaned
    /\ InCell = StrV(<<"P","z","a","s",".">>)
    /\ OutCell = StrV(u_PIEZA)
    /\ report.unit_normalized = 1
    /\ normalize_unit_name(OutCell) = OutCell

IsClose(i) == trace[i].op = "close"

\* C14: an upload that opened a connection has closed it exactly once when
\* it ends, and no call on the connection follows the close.
C14_ClosedOnce ==
    (Done /\ Opened) =>
        /\ IsClose(Len(trace))
        /\ \A i \in 1..(Len(trace) - 1) : ~IsClose(i)

UnitNamePieces == {<<"L">>, <<"t">>, <<"T">>, <<".">>, <<" ">>, <<"K","g">>,
                   <<"P","i","e","z","a">>, <<"c","a","j","a">>, <<"C","h","i","c","a">>}

InitResolve == StartOn({OneCellFile(c_unidad_venta, StrV(t)) :
                           t \in Texts(UnitNamePieces, MaxParts)})

\* the whole upload of a one-row sheet with a unit cell
SpecResolve == InitResolve /\ [][Next]_vars

\* upper case, dots and spaces removed
NameKey(t) == Upper(RemoveChar(RemoveChar(t, "."), " "))

Resolved ==
    /\ \E i \in 1..Len(trace) : trace[i] = Call("execute SELECT", TRUE)
    /\ file.sheet.cols[2] = c_unidad_venta
    /\ InCell.t = "str"
    /\ Len(clean_df.rows) = 1

\* C15: once the coercer and the resolver have run, a unit cell holding the
\* display name of a unit of the reference table, in any letter case and
\* with or without dots and spaces, holds that unit's identifier.
C15_DisplayNameResolves ==
    Resolved =>
        \A k \in 1..Len(UnidadTable) :
            NameKey(InCell.s) = NameKey(UnidadTable[k].nombre)
                => OutCell = IntV(UnidadTable[k].uni_id)
====
